---- MODULE Spec2Model ----
(***************************************************************************)
(* State-machine model of stepper_motor.py (class StepperMotor).           *)
(*                                                                         *)
(* One controller instance is modelled.  The three GPIO lines are kept as  *)
(* their last written level, every call keeps a frame (operation,          *)
(* arguments, loop counter) and a per-call count of the pin writes and     *)
(* position updates it made, so that properties of a whole call can be     *)
(* read off the state in which the call returns or raises.                 *)
(*                                                                         *)
(* Python's None is the empty sequence, a present value v is <<v>>.        *)
(* Angles and speeds are integers; the float arithmetic that the source    *)
(* performs on them (360 / steps_per_revolution, degree / step_angle) is   *)
(* IEEE-754 binary64 division with round-to-nearest-even, computed here    *)
(* on 53-bit significands held in three 18-bit limbs.                      *)
(***************************************************************************)
EXTENDS Integers, Sequences, FiniteSets

\* ------------------------------------------------------------------------
\* Bounds of the model
\* ------------------------------------------------------------------------
MaxStepsPerRev == 3
MaxSteps == 3
MaxRotations == 1
MaxRpm == 2
PosCap == 2
MinAngleStepsPerRev == 33
MaxAngleStepsPerRev == 35

None == << >>
Some(v) == <<v>>
Val(o) == o[1]

\* steps_per_revolution is not validated by the constructor, so 0 and a
\* negative value are constructible as well.
StepsPerRevValues == {-1, 0} \cup (1..MaxStepsPerRev)
AngleStepsPerRevValues == MinAngleStepsPerRev..MaxAngleStepsPerRev
MaxRpmValues == {None, Some(1)}
RpmValues == (-1)..MaxRpm
StepsValues == 0..MaxSteps
RotationsValues == 0..MaxRotations

\* angles offered to go_to_position: multiples and non-multiples of the step
\* angle, both ends of [0, 360] and values outside it
DegreeNumbers == {-1, 0, 90, 120, 180, 240, 360, 450}
AngleDegreeNumbers == {-1, 0, 36, 72, 120, 144, 180, 288, 360, 361}

\* <<steps_relative_to_home, degree>> pairs offered to go_to_position
Requests ==
    {<<None, None>>, <<Some(0), Some(0)>>, <<Some(1), Some(180)>>}
    \cup {<<Some(t), None>> : t \in (-1)..MaxStepsPerRev}
    \cup {<<None, Some(d)>> : d \in DegreeNumbers}
AngleRequests == {<<None, Some(d)>> : d \in AngleDegreeNumbers}

\* ------------------------------------------------------------------------
\* binary64 division (Python's `/` on numbers), positive operands
\* A float is [m |-> <<hi, mid, lo>>, e |-> exponent] with value m * 2^e and
\* 2^52 <= m < 2^53; limbs are base 2^18.
\* ------------------------------------------------------------------------
Limb == 2^18

RECURSIVE BitLength(_)
BitLength(n) == IF n = 0 THEN 0 ELSE 1 + BitLength(n \div 2)

\* int -> float, exact for 0 < n < 2^17
FloatOfInt(n) ==
    LET L == BitLength(n)
    IN  [m |-> <<n * 2^(17 - L), 0, 0>>, e |-> L - 53]

\* x * c for 0 <= c <= 2^12
BigTimes(x, c) ==
    LET lo  == x[3] * c
        mid == x[2] * c + (lo \div Limb)
        hi  == x[1] * c + (mid \div Limb)
    IN  <<hi, mid % Limb, lo % Limb>>

BigDouble(x) == BigTimes(x, 2)

RECURSIVE BigShift(_, _)
BigShift(x, k) ==
    IF k <= 12 THEN BigTimes(x, 2^k) ELSE BigShift(BigTimes(x, 2^12), k - 12)

BigGeq(x, y) ==
    \/ x[1] > y[1]
    \/ x[1] = y[1] /\ x[2] > y[2]
    \/ x[1] = y[1] /\ x[2] = y[2] /\ x[3] >= y[3]

BigSub(x, y) ==
    LET lo  == x[3] - y[3]
        b0  == IF lo < 0 THEN 1 ELSE 0
        mid == x[2] - y[2] - b0
        b1  == IF mid < 0 THEN 1 ELSE 0
    IN  <<x[1] - y[1] - b1, mid + b1 * Limb, lo + b0 * Limb>>

BigInc(x) ==
    LET lo  == x[3] + 1
        mid == x[2] + (lo \div Limb)
        hi  == x[1] + (mid \div Limb)
    IN  <<hi, mid % Limb, lo % Limb>>

\* one quotient bit by shift-and-subtract on <<remainder, quotient>>
DivBit(rq, d) ==
    LET r2 == BigDouble(rq[1])
        q2 == BigDouble(rq[2])
    IN  IF BigGeq(r2, d) THEN <<BigSub(r2, d), BigInc(q2)>> ELSE <<r2, q2>>

\* k further quotient bits after <<remainder, quotient>> = rq; once the
\* remainder is zero the division is exact and the remaining bits are zero
RECURSIVE DivBits(_, _, _)
DivBits(rq, k, d) ==
    IF k = 0 THEN rq
    ELSE IF k = 1 THEN DivBit(rq, d)
    ELSE LET half == DivBits(rq, k \div 2, d)
         IN  IF half[1] = <<0, 0, 0>>
             THEN <<half[1], BigShift(half[2], k - (k \div 2))>>
             ELSE DivBits(half, k - (k \div 2), d)

\* round-to-nearest, ties to even, then renormalise
FloatRound(rq, d, e) ==
    LET r2 == BigDouble(rq[1])
        q  == rq[2]
        up == IF r2 = d THEN q[3] % 2 = 1 ELSE BigGeq(r2, d)
        q1 == IF up THEN BigInc(q) ELSE q
    IN  IF q1[1] = 2^17
        THEN [m |-> <<2^16, 0, 0>>, e |-> e + 1]
        ELSE [m |-> q1, e |-> e]

FloatDiv(a, b) ==
    IF BigGeq(a.m, b.m)
    THEN FloatRound(DivBits(<<BigSub(a.m, b.m), <<0, 0, 1>>>>, 52, b.m), b.m, a.e - b.e - 52)
    ELSE FloatRound(DivBits(<<a.m, <<0, 0, 0>>>>, 53, b.m), b.m, a.e - b.e - 53)

\* int(x) for a positive float below 2^17: truncation toward zero
FloatTrunc(x) ==
    IF -x.e >= 53 THEN 0 ELSE x.m[1] \div 2^((-x.e) - 36)

\* x == int(x) for a positive float below 2^17
FloatIsWhole(x) ==
    /\ -x.e < 53
    /\ x.m[2] = 0
    /\ x.m[3] = 0
    /\ x.m[1] % 2^((-x.e) - 36) = 0

Abs(n) == IF n < 0 THEN -n ELSE n

\* abs(degree / step_angle) with step_angle = 360 / steps_per_revolution,
\* for degree > 0 and n = steps_per_revolution # 0
QuotientFloat(degree, n) ==
    FloatDiv(FloatOfInt(degree), FloatDiv(FloatOfInt(360), FloatOfInt(Abs(n))))

\* The quotients are constants of (steps_per_revolution, degree): tabulated once.
AllStepsPerRev == (StepsPerRevValues \cup AngleStepsPerRevValues) \ {0}
PositiveDegrees == {d \in DegreeNumbers \cup AngleDegreeNumbers : d > 0 /\ d <= 360}
QuotientTable == [n \in AllStepsPerRev |-> [d \in PositiveDegrees |-> QuotientFloat(d, n)]]

\* degree / step_angle as the source computes it (degree > 0, n # 0)
DegreeQuotient(degree, n) ==
    IF n \in AllStepsPerRev /\ degree \in PositiveDegrees
    THEN QuotientTable[n][degree]
    ELSE QuotientFloat(degree, n)

\* ------------------------------------------------------------------------
\* State
\* ------------------------------------------------------------------------
VARIABLES
    steps_per_revolution,   \* self.steps_per_revolution
    max_rpm,                \* self.max_rpm, None or <<limit>>
    hold_position,          \* self.hold_position
    steps_from_home,        \* self.steps_from_home, None or <<position>>
    enable_pin,             \* level last written to the enable line
    direction_pin,          \* level last written to the direction line
    pulse_pin,              \* level last written to the pulse line
    pc,                     \* position of the running call, "idle" when none
    op,                     \* public method of the current / most recent call
    steps,                  \* argument `steps` of step()
    turn_clockwise,         \* argument `turn_clockwise`
    rpm,                    \* argument `rpm`
    request,                \* <<steps_relative_to_home, degree>> given to go_to_position
    target,                 \* resolved steps_relative_to_home, None before resolution
    entry,                  \* steps_from_home when the call was entered
    i,                      \* loop variable of step()
    delay_in_seconds,       \* sign of the delay computed by calculate_delay_from_rpm
    result,                 \* outcome of the call: "running", "ok" or the error raised
    writes,                 \* GPIO.output calls made by the call, per line and level
    updates,                \* update_position calls made by or as the call
    prev,                   \* <<steps, entry>> of the call before the current one,
                            \* if that was a successful clockwise step(), else None
    net_pulses              \* pulses completed on the pulse line since home was last
                            \* marked, clockwise minus counterclockwise as told by the
                            \* direction line, modulo steps_per_revolution when that
                            \* is positive; 0 while home is unset

config == <<steps_per_revolution, max_rpm, hold_position>>
pins == <<enable_pin, direction_pin, pulse_pin>>
frame == <<op, steps, turn_clockwise, rpm, request, target, entry>>
vars == <<steps_per_revolution, max_rpm, hold_position, steps_from_home,
          enable_pin, direction_pin, pulse_pin, pc, op, steps, turn_clockwise,
          rpm, request, target, entry, i, delay_in_seconds, result, writes,
          updates, prev, net_pulses>>

NoWrites == [enable |-> 0, direction |-> 0, high |-> 0, low |-> 0]

\* __init__ (lines 11-37) with the given arguments
Constructed(n, limit, hold) ==
    /\ steps_per_revolution = n
    /\ max_rpm = limit
    /\ hold_position = hold
    /\ enable_pin = IF hold THEN "LOW" ELSE "HIGH"
    /\ direction_pin = "UNSET"
    /\ pulse_pin = "UNSET"
    /\ steps_from_home = None
    /\ pc = "returned"
    /\ op = "__init__"
    /\ steps = 0
    /\ turn_clockwise = TRUE
    /\ rpm = 1
    /\ request = <<None, None>>
    /\ target = None
    /\ entry = None
    /\ i = 0
    /\ delay_in_seconds = 1
    /\ result = "ok"
    /\ writes = [NoWrites EXCEPT !.enable = 1]
    /\ updates = 0
    /\ prev = None
    /\ net_pulses = 0

Init ==
    \E n \in StepsPerRevValues, limit \in MaxRpmValues, hold \in BOOLEAN :
        Constructed(n, limit, hold)

\* ------------------------------------------------------------------------
\* Pure parts of the methods
\* ------------------------------------------------------------------------

\* sign of calculate_delay_from_rpm(rpm) = (60 / rpm) / (steps_per_revolution * 2);
\* 0 stands for ZeroDivisionError
calculate_delay_from_rpm(r, n) ==
    IF r = 0 \/ n = 0 THEN 0
    ELSE IF (r > 0) = (n > 0) THEN 1 ELSE -1

\* update_position without the clockwise reset at steps_per_revolution
update_position_no_reset(pos, cw, n) ==
    IF pos = None THEN None
    ELSE IF cw
         THEN Some(Val(pos) + 1)
         ELSE Some((IF Val(pos) = 0 THEN n ELSE Val(pos)) - 1)

\* update_position with the counterclockwise wrap landing one step short
update_position_short_wrap(pos, cw, n) ==
    IF pos = None THEN None
    ELSE IF cw
         THEN IF Val(pos) + 1 = n THEN Some(0) ELSE Some(Val(pos) + 1)
         ELSE Some((IF Val(pos) = 0 THEN n - 1 ELSE Val(pos)) - 1)

\* update_position without the guard of line 95: an unset home counts as 0
update_position_from_unset(pos, cw, n) ==
    LET c == IF pos = None THEN 0 ELSE Val(pos)
    IN  IF cw
        THEN IF c + 1 = n THEN Some(0) ELSE Some(c + 1)
        ELSE Some((IF c = 0 THEN n ELSE c) - 1)

\* update_position (lines 91-104)
update_position_value(pos, cw, n) ==
    IF pos = None THEN None
    ELSE IF cw
         THEN IF Val(pos) + 1 = n THEN Some(0) ELSE Some(Val(pos) + 1)
         ELSE Some((IF Val(pos) = 0 THEN n ELSE Val(pos)) - 1)

\* line 129 replaced by silent truncation to a whole step
not_a_step_multiple_truncating(degree, n) == FALSE

\* the check of line 129: degree / step_angle != int(degree / step_angle)
not_a_step_multiple(degree, n) ==
    degree # 0 /\ ~FloatIsWhole(DegreeQuotient(degree, n))

\* line 133: int(degree / step_angle)
steps_from_degree(degree, n) ==
    IF degree = 0 THEN 0
    ELSE (IF n < 0 THEN -1 ELSE 1) * FloatTrunc(DegreeQuotient(degree, n))

\* go_to_position, lines 124-133: the step index of an angle, or the error raised
resolve_degree(degree, n) ==
    IF degree < 0 \/ degree > 360 THEN [error |-> "OutOfRange", index |-> None]
    ELSE IF n = 0 THEN [error |-> "ZeroDivisionError", index |-> None]
    ELSE IF not_a_step_multiple(degree, n) THEN [error |-> "NotAStepMultiple", index |-> None]
    ELSE [error |-> "ok", index |-> Some(steps_from_degree(degree, n))]

\* lines 145-154 without the wrap through zero
steps_to_position_no_wrap(t, c, cw, n) ==
    IF t > c THEN t - c ELSE c - t

\* lines 145-154 taking the shorter arc whatever the direction asked for
steps_to_position_shorter(t, c, cw, n) ==
    LET clockwise == IF t > c THEN t - c ELSE n - c + t
        counter   == IF t > c THEN c + (n - t) ELSE c - t
    IN  IF clockwise < counter THEN clockwise ELSE counter

\* go_to_position, lines 145-154: number of steps in the requested direction
steps_to_position(t, c, cw, n) ==
    IF cw
    THEN IF t > c THEN t - c ELSE n - c + t
    ELSE IF t > c THEN c + (n - t) ELSE c - t

\* lines 114-141 without the early return of lines 137-138
plan_position_no_early_return(pos, srh, degree, n) ==
    IF pos = None THEN [error |-> "PositionUnknown", index |-> None, move |-> FALSE]
    ELSE IF srh = None /\ degree = None
         THEN [error |-> "AmbiguousTarget", index |-> None, move |-> FALSE]
    ELSE IF srh # None /\ degree # None
         THEN [error |-> "AmbiguousTarget", index |-> None, move |-> FALSE]
    ELSE LET r == IF degree # None THEN resolve_degree(Val(degree), n)
                  ELSE [error |-> "ok", index |-> srh]
         IN  IF r.error # "ok" THEN [error |-> r.error, index |-> None, move |-> FALSE]
             ELSE IF Val(r.index) < 0 \/ Val(r.index) > n - 1
                  THEN [error |-> "OutOfRange", index |-> r.index, move |-> FALSE]
             ELSE [error |-> "ok", index |-> r.index, move |-> TRUE]

\* lines 114-141 with the argument checks of lines 118-121 ahead of line 114
plan_position_arguments_first(pos, srh, degree, n) ==
    IF srh = None /\ degree = None
    THEN [error |-> "AmbiguousTarget", index |-> None, move |-> FALSE]
    ELSE IF srh # None /\ degree # None
         THEN [error |-> "AmbiguousTarget", index |-> None, move |-> FALSE]
    ELSE IF pos = None THEN [error |-> "PositionUnknown", index |-> None, move |-> FALSE]
    ELSE LET r == IF degree # None THEN resolve_degree(Val(degree), n)
                  ELSE [error |-> "ok", index |-> srh]
         IN  IF r.error # "ok" THEN [error |-> r.error, index |-> None, move |-> FALSE]
             ELSE IF r.index = pos THEN [error |-> "ok", index |-> r.index, move |-> FALSE]
             ELSE IF Val(r.index) < 0 \/ Val(r.index) > n - 1
                  THEN [error |-> "OutOfRange", index |-> r.index, move |-> FALSE]
             ELSE [error |-> "ok", index |-> r.index, move |-> TRUE]

\* lines 114-141 with the bound of line 140 off by one
plan_position_wide_range(pos, srh, degree, n) ==
    IF pos = None THEN [error |-> "PositionUnknown", index |-> None, move |-> FALSE]
    ELSE IF srh = None /\ degree = None
         THEN [error |-> "AmbiguousTarget", index |-> None, move |-> FALSE]
    ELSE IF srh # None /\ degree # None
         THEN [error |-> "AmbiguousTarget", index |-> None, move |-> FALSE]
    ELSE LET r == IF degree # None THEN resolve_degree(Val(degree), n)
                  ELSE [error |-> "ok", index |-> srh]
         IN  IF r.error # "ok" THEN [error |-> r.error, index |-> None, move |-> FALSE]
             ELSE IF r.index = pos THEN [error |-> "ok", index |-> r.index, move |-> FALSE]
             ELSE IF Val(r.index) < 0 \/ Val(r.index) > n
                  THEN [error |-> "OutOfRange", index |-> r.index, move |-> FALSE]
             ELSE [error |-> "ok", index |-> r.index, move |-> TRUE]

\* go_to_position, lines 114-141: outcome before any motion.
\* error "ok" with move = FALSE is the return of line 138.
plan_position(pos, srh, degree, n) ==
    IF pos = None THEN [error |-> "PositionUnknown", index |-> None, move |-> FALSE]
    ELSE IF srh = None /\ degree = None
         THEN [error |-> "AmbiguousTarget", index |-> None, move |-> FALSE]
    ELSE IF srh # None /\ degree # None
         THEN [error |-> "AmbiguousTarget", index |-> None, move |-> FALSE]
    ELSE LET r == IF degree # None THEN resolve_degree(Val(degree), n)
                  ELSE [error |-> "ok", index |-> srh]
         IN  IF r.error # "ok" THEN [error |-> r.error, index |-> None, move |-> FALSE]
             ELSE IF r.index = pos THEN [error |-> "ok", index |-> r.index, move |-> FALSE]
             ELSE IF Val(r.index) < 0 \/ Val(r.index) > n - 1
                  THEN [error |-> "OutOfRange", index |-> r.index, move |-> FALSE]
             ELSE [error |-> "ok", index |-> r.index, move |-> TRUE]

\* step(), lines 46-47 with >= for >
speed_exceeded_inclusive(r, limit) ==
    limit # None /\ r >= Val(limit)

\* step(), lines 46-47: the speed check
speed_exceeded(r, limit) ==
    limit # None /\ r > Val(limit)

\* the direction line driven the wrong way round
direction_level_inverted(cw) == IF cw THEN "LOW" ELSE "HIGH"

\* step(), lines 50-53: level of the direction line
direction_level(cw) == IF cw THEN "HIGH" ELSE "LOW"

\* the pulse just completed on the pulse line (high at line 62, low at line
\* 64) turns the motor one step the way the direction line (lines 50-53) says
pulse_counted(net, level, pos, n) ==
    IF pos = None THEN net
    ELSE LET moved == IF level = "HIGH" THEN net + 1 ELSE net - 1
         IN  IF n > 0 THEN moved % n ELSE moved

\* ------------------------------------------------------------------------
\* Calls
\* ------------------------------------------------------------------------

\* what is remembered of the finished call
Finished ==
    IF op = "step" /\ result = "ok" /\ turn_clockwise THEN <<steps, entry>> ELSE None

\* the tracked position is unbounded when steps_per_revolution <= 0
WithinCap(s) ==
    IF steps_per_revolution > 0 \/ steps_from_home = None THEN TRUE
    ELSE Abs(Val(steps_from_home)) + s <= PosCap /\ Abs(net_pulses) + s <= PosCap

\* a public method is entered
Enter(method, cw, r, req) ==
    /\ pc = "idle"
    /\ op' = method
    /\ turn_clockwise' = cw
    /\ rpm' = r
    /\ request' = req
    /\ entry' = steps_from_home
    /\ UNCHANGED <<prev, writes, updates, i, delay_in_seconds>>

\* self.step(steps=s, ...) is invoked: control is at line 46
InvokeStep(s) ==
    /\ WithinCap(s)
    /\ steps' = s
    /\ pc' = "step"
    /\ result' = "running"

\* the call returns or raises without having invoked step()
Leave(res) ==
    /\ steps' = 0
    /\ pc' = "returned"
    /\ result' = res

\* step(steps, turn_clockwise, rpm), called by the user
step(s, cw, r) ==
    /\ Enter("step", cw, r, <<None, None>>)
    /\ InvokeStep(s)
    /\ target' = None
    /\ UNCHANGED <<config, pins, steps_from_home, net_pulses>>

\* do_one_rotation (lines 73-74)
do_one_rotation(cw, r) ==
    /\ Enter("do_one_rotation", cw, r, <<None, None>>)
    /\ InvokeStep(steps_per_revolution)
    /\ target' = None
    /\ UNCHANGED <<config, pins, steps_from_home, net_pulses>>

\* rotate (lines 76-77)
rotate(rotations, cw, r) ==
    /\ Enter("rotate", cw, r, <<None, None>>)
    /\ InvokeStep(rotations * steps_per_revolution)
    /\ target' = None
    /\ UNCHANGED <<config, pins, steps_from_home, net_pulses>>

\* set_current_position_as_home (lines 88-89)
set_current_position_as_home ==
    /\ Enter("set_current_position_as_home", TRUE, 1, <<None, None>>)
    /\ Leave("ok")
    /\ steps_from_home' = Some(0)
    /\ net_pulses' = 0
    /\ target' = None
    /\ UNCHANGED <<config, pins>>

\* update_position(turn_clockwise) (lines 91-104), called by the user: the
\* tracked position moves by one step and no pin is written
update_position(cw) ==
    /\ pc = "idle"
    /\ WithinCap(1)
    /\ op' = "update_position"
    /\ turn_clockwise' = cw
    /\ entry' = steps_from_home
    /\ steps_from_home' = update_position_value(steps_from_home, cw,
                                                steps_per_revolution)
    /\ updates' = updates + 1
    /\ pc' = "returned"
    /\ result' = "ok"
    /\ UNCHANGED <<config, pins, steps, rpm, request, target, i,
                   delay_in_seconds, writes, prev, net_pulses>>

\* go_to_position (lines 106-154) up to its return, its error or its call of step()
go_to_position(cw, r, srh, degree) ==
    LET plan == plan_position(steps_from_home, srh, degree, steps_per_revolution)
    IN  /\ Enter("go_to_position", cw, r, <<srh, degree>>)
        /\ target' = plan.index
        /\ IF plan.move
           THEN InvokeStep(steps_to_position(Val(plan.index), Val(steps_from_home),
                                             cw, steps_per_revolution))
           ELSE Leave(plan.error)
        /\ UNCHANGED <<config, pins, steps_from_home, net_pulses>>

\* step(), lines 46-58: speed check, direction and enable lines, delay
step_begin ==
    /\ pc = "step"
    /\ IF speed_exceeded(rpm, max_rpm)
       THEN /\ pc' = "returned"
            /\ result' = "SpeedExceeded"
            /\ UNCHANGED <<pins, writes, delay_in_seconds>>
       ELSE /\ direction_pin' = direction_level(turn_clockwise)
            /\ enable_pin' = "LOW"
            /\ writes' = [writes EXCEPT !.direction = @ + 1, !.enable = @ + 1]
            /\ delay_in_seconds' = calculate_delay_from_rpm(rpm, steps_per_revolution)
            /\ IF delay_in_seconds' = 0
               THEN pc' = "returned" /\ result' = "ZeroDivisionError"
               ELSE pc' = "loop" /\ UNCHANGED result
            /\ UNCHANGED pulse_pin
    /\ UNCHANGED <<config, frame, steps_from_home, i, updates, prev, net_pulses>>

\* step(), lines 62-63: pulse line high, then time.sleep (which rejects a
\* negative length with ValueError)
pulse_high ==
    /\ pc = "loop"
    /\ i < steps
    /\ pulse_pin' = "HIGH"
    /\ writes' = [writes EXCEPT !.high = @ + 1]
    /\ IF delay_in_seconds < 0
       THEN pc' = "returned" /\ result' = "SleepValueError"
       ELSE pc' = "high" /\ UNCHANGED result
    /\ UNCHANGED <<config, frame, steps_from_home, enable_pin, direction_pin,
                   i, delay_in_seconds, updates, prev, net_pulses>>

\* step(), lines 64-65: pulse line low, then time.sleep
pulse_low ==
    /\ pc = "high"
    /\ pulse_pin' = "LOW"
    /\ writes' = [writes EXCEPT !.low = @ + 1]
    /\ pc' = "low"
    /\ net_pulses' = pulse_counted(net_pulses, direction_pin, steps_from_home,
                                    steps_per_revolution)
    /\ UNCHANGED <<config, frame, steps_from_home, enable_pin, direction_pin,
                   i, delay_in_seconds, result, updates, prev>>

\* the update of line 67 applied in both phases of the pulse
pulse_update_twice ==
    /\ pc = "low"
    /\ steps_from_home' =
           update_position_value(
               update_position_value(steps_from_home, turn_clockwise,
                                     steps_per_revolution),
               turn_clockwise, steps_per_revolution)
    /\ updates' = updates + 2
    /\ i' = i + 1
    /\ pc' = "loop"
    /\ UNCHANGED <<config, frame, pins, delay_in_seconds, result, writes, prev,
                   net_pulses>>

\* step(), line 67: update_position, then the next iteration
pulse_update ==
    /\ pc = "low"
    /\ steps_from_home' = update_position_value(steps_from_home, turn_clockwise,
                                                steps_per_revolution)
    /\ updates' = updates + 1
    /\ i' = i + 1
    /\ pc' = "loop"
    /\ UNCHANGED <<config, frame, pins, delay_in_seconds, result, writes, prev,
                   net_pulses>>

\* step_end without the disable of lines 69-71
step_end_leaves_enabled ==
    /\ pc = "loop"
    /\ i >= steps
    /\ pc' = "returned"
    /\ result' = "ok"
    /\ UNCHANGED <<config, frame, steps_from_home, pins, writes,
                   i, delay_in_seconds, updates, prev, net_pulses>>

\* step(), lines 69-71: the loop is over
step_end ==
    /\ pc = "loop"
    /\ i >= steps
    /\ IF ~hold_position
       THEN /\ enable_pin' = "HIGH"
            /\ writes' = [writes EXCEPT !.enable = @ + 1]
       ELSE UNCHANGED <<enable_pin, writes>>
    /\ pc' = "returned"
    /\ result' = "ok"
    /\ UNCHANGED <<config, frame, steps_from_home, direction_pin, pulse_pin,
                   i, delay_in_seconds, updates, prev, net_pulses>>

\* control is back with the caller: the frame of the finished call is dropped
resume ==
    /\ pc = "returned"
    /\ pc' = "idle"
    /\ prev' = Finished
    /\ op' = "none"
    /\ steps' = 0
    /\ turn_clockwise' = TRUE
    /\ rpm' = 1
    /\ request' = <<None, None>>
    /\ target' = None
    /\ entry' = None
    /\ i' = 0
    /\ delay_in_seconds' = 1
    /\ result' = "none"
    /\ writes' = NoWrites
    /\ updates' = 0
    /\ UNCHANGED <<config, pins, steps_from_home, net_pulses>>

Next ==
    \/ \E s \in StepsValues, cw \in BOOLEAN, r \in RpmValues : step(s, cw, r)
    \/ \E cw \in BOOLEAN, r \in RpmValues : do_one_rotation(cw, r)
    \/ \E k \in RotationsValues, cw \in BOOLEAN, r \in RpmValues : rotate(k, cw, r)
    \/ set_current_position_as_home
    \/ \E cw \in BOOLEAN : update_position(cw)
    \/ \E cw \in BOOLEAN, r \in RpmValues, req \in Requests :
          go_to_position(cw, r, req[1], req[2])
    \/ step_begin
    \/ pulse_high
    \/ pulse_low
    \/ pulse_update
    \/ step_end
    \/ resume

\* callers that only mark home and go to an angle, at rpm 1, on motors with
\* many steps per revolution
NextAngle ==
    \/ set_current_position_as_home
    \/ \E cw \in BOOLEAN, req \in AngleRequests : go_to_position(cw, 1, req[1], req[2])
    \/ step_begin
    \/ pulse_high
    \/ pulse_low
    \/ pulse_update
    \/ step_end
    \/ resume

InitAngle ==
    \E n \in AngleStepsPerRevValues : Constructed(n, None, TRUE)

SpecAngle == InitAngle /\ [][NextAngle]_vars

Spec == Init /\ [][Next]_vars

\* ------------------------------------------------------------------------
\* Properties
\* ------------------------------------------------------------------------
Returned == pc = "returned"
GoTo == Returned /\ op = "go_to_position"
TooFast == max_rpm # None /\ rpm > Val(max_rpm)
UsableRpm == rpm > 0 /\ ~TooFast
Untouched == writes = NoWrites /\ updates = 0 /\ steps_from_home = entry
OnlyIndex == request[1] # None /\ request[2] = None
OnlyDegree == request[1] = None /\ request[2] # None
InRange(t) == 0 <= t /\ t < steps_per_revolution

\* C1: for steps_per_revolution > 0 the tracked position, once home is set,
\* is in [0, steps_per_revolution) in every state, i.e. after every single
\* position update of every call and between calls.
C1_PositionInRange ==
    (steps_per_revolution > 0 /\ steps_from_home # None)
        => InRange(Val(steps_from_home))

\* a counterclockwise pulse from home has just wrapped, in the middle of a call
C1_Witness ==
    /\ pc = "loop"
    /\ i < steps
    /\ ~turn_clockwise
    /\ updates = 1
    /\ entry = Some(0)
    /\ steps_per_revolution = 3
    /\ steps_from_home = Some(2)

\* C2: with home set, go_to_position to a step index t in [0, N) with a
\* positive rpm not above max_rpm succeeds and ends with steps_from_home = t,
\* in either direction.
C2_ReachesTarget ==
    (GoTo /\ steps_per_revolution > 0 /\ entry # None /\ OnlyIndex
          /\ InRange(Val(request[1])) /\ UsableRpm)
        => (result = "ok" /\ steps_from_home = request[1])

\* clockwise from 2 to 1 on 3 steps per revolution: two pulses through zero
C2_Witness ==
    /\ GoTo
    /\ result = "ok"
    /\ steps_per_revolution = 3
    /\ entry = Some(2)
    /\ request = <<Some(1), None>>
    /\ turn_clockwise
    /\ writes.high = 2
    /\ steps_from_home = Some(1)

\* the number of pulses go_to_position is to emit from c to t
ExpectedPulses(t, c, cw, n) ==
    IF cw THEN (t - c) % n ELSE (c - t) % n

\* C3: a go_to_position that moves (target t # current c) emits exactly
\* (t - c) mod N pulses when clockwise and (c - t) mod N when
\* counterclockwise, a number in [1, N-1], all of them with the direction
\* line at the level of the caller's direction, which is written once.
C3_PulsesInChosenDirection ==
    /\ (GoTo /\ result = "ok" /\ steps_per_revolution > 0 /\ target # entry)
        => /\ writes.high = ExpectedPulses(Val(target), Val(entry), turn_clockwise,
                                           steps_per_revolution)
           /\ writes.low = writes.high
           /\ updates = writes.high
           /\ writes.high >= 1
           /\ writes.high <= steps_per_revolution - 1
           /\ steps = IF turn_clockwise
                      THEN IF Val(target) > Val(entry)
                           THEN Val(target) - Val(entry)
                           ELSE steps_per_revolution - Val(entry) + Val(target)
                      ELSE IF Val(target) > Val(entry)
                           THEN Val(entry) + (steps_per_revolution - Val(target))
                           ELSE Val(entry) - Val(target)
           /\ writes.high = steps
    /\ (op = "go_to_position" /\ pc \in {"loop", "high", "low"})
        => /\ direction_pin = direction_level(turn_clockwise)
           /\ writes.direction = 1

\* clockwise from 0 to 2 on 3 steps per revolution takes two pulses although
\* one counterclockwise pulse would do
C3_Witness ==
    /\ GoTo
    /\ result = "ok"
    /\ steps_per_revolution = 3
    /\ entry = Some(0)
    /\ target = Some(2)
    /\ turn_clockwise
    /\ writes.high = 2
    /\ direction_pin = "HIGH"

\* C4: with home set, go_to_position whose resolved target is the current
\* position succeeds without any pin write, pulse or position change,
\* whatever the direction and the rpm.
C4_AlreadyThere ==
    (GoTo /\ entry # None /\ target = entry)
        => (result = "ok" /\ Untouched)

\* the no-op is taken with an rpm above max_rpm
C4_Witness ==
    /\ GoTo
    /\ steps_per_revolution = 3
    /\ entry = Some(1)
    /\ target = Some(1)
    /\ TooFast
    /\ result = "ok"
    /\ writes = NoWrites

\* the call got as far as the body of step()
ReachedStep ==
    \/ op \in {"step", "do_one_rotation", "rotate"}
    \/ /\ op = "go_to_position"
       /\ entry # None
       /\ target # None
       /\ target # entry
       /\ InRange(Val(target))

\* C5: a call that reaches step() with max_rpm set and rpm > max_rpm fails
\* with SpeedExceeded, no pin written and the position unchanged; and
\* SpeedExceeded is raised in no other case.
C5_SpeedExceeded ==
    /\ (Returned /\ ReachedStep /\ TooFast)
        => (result = "SpeedExceeded" /\ Untouched)
    /\ result = "SpeedExceeded" => TooFast

\* step() of some pulses is refused at a known position
C5_Witness ==
    /\ Returned
    /\ op = "step"
    /\ steps_per_revolution = 3
    /\ steps > 0
    /\ entry # None
    /\ result = "SpeedExceeded"
    /\ max_rpm = Some(1)
    /\ rpm = 2

\* C6: step(k, clockwise) followed by step(k, counterclockwise), 0 < k < N,
\* brings steps_from_home back to its value before the first of the two.
C6_RoundTrip ==
    (/\ Returned
     /\ op = "step"
     /\ result = "ok"
     /\ ~turn_clockwise
     /\ prev # None
     /\ prev[1] = steps
     /\ prev[2] # None
     /\ steps_per_revolution > 0
     /\ 0 < steps
     /\ steps < steps_per_revolution)
        => steps_from_home = prev[2]

\* both legs go through zero: 2 -> 1 clockwise, then 1 -> 2 counterclockwise
C6_Witness ==
    /\ Returned
    /\ op = "step"
    /\ result = "ok"
    /\ ~turn_clockwise
    /\ steps_per_revolution = 3
    /\ steps = 2
    /\ prev = <<2, Some(2)>>
    /\ entry = Some(1)
    /\ steps_from_home = Some(2)

\* C7: before home is marked go_to_position raises PositionUnknown whatever
\* its arguments, with no pin written and the position still undefined.
C7_PositionUnknownFirst ==
    (GoTo /\ entry = None)
        => (result = "PositionUnknown" /\ Untouched /\ steps_from_home = None)

\* both targets supplied and the rpm above max_rpm, yet PositionUnknown
C7_Witness ==
    /\ GoTo
    /\ steps_per_revolution = 3
    /\ entry = None
    /\ request[1] # None
    /\ request[2] # None
    /\ TooFast
    /\ result = "PositionUnknown"

\* C8: with home set, neither or both targets give AmbiguousTarget, a step
\* index outside [0, N) or an angle outside [0, 360] gives OutOfRange, and
\* either failure leaves the pins and the position alone.
C8_ArgumentErrors ==
    (GoTo /\ entry # None /\ steps_per_revolution > 0)
        => /\ (request[1] = None) = (request[2] = None) => result = "AmbiguousTarget"
           /\ (OnlyIndex /\ ~InRange(Val(request[1]))) => result = "OutOfRange"
           /\ (OnlyDegree /\ (Val(request[2]) < 0 \/ Val(request[2]) > 360))
                 => result = "OutOfRange"
           /\ result \in {"AmbiguousTarget", "OutOfRange"} => Untouched

\* the step index N itself is refused
C8_Witness ==
    /\ GoTo
    /\ entry # None
    /\ steps_per_revolution = 3
    /\ request = <<Some(3), None>>
    /\ result = "OutOfRange"
    /\ writes = NoWrites

\* the angle is a whole number of step angles 360 / N
ExactMultiple(degree, n) == (degree * n) % 360 = 0

\* C9: with home set and a usable rpm, every angle in [0, 360] that is an
\* exact multiple of the step angle is accepted and leaves the motor at
\* step index angle / step angle, both ends 0 and 360 included.
C9_EveryMultipleAccepted ==
    (GoTo /\ entry # None /\ steps_per_revolution > 0 /\ OnlyDegree /\ UsableRpm
          /\ Val(request[2]) >= 0 /\ Val(request[2]) <= 360
          /\ ExactMultiple(Val(request[2]), steps_per_revolution))
        => /\ result = "ok"
           /\ steps_from_home = Some((Val(request[2]) * steps_per_revolution) \div 360)

\* C10: with home set, an angle in [0, 360] that is not an exact multiple of
\* the step angle gives NotAStepMultiple with pins and position untouched,
\* and an angle outside [0, 360] gives OutOfRange instead.
C10_NotAStepMultiple ==
    (GoTo /\ entry # None /\ steps_per_revolution > 0 /\ OnlyDegree)
        => /\ (/\ Val(request[2]) >= 0
               /\ Val(request[2]) <= 360
               /\ ~ExactMultiple(Val(request[2]), steps_per_revolution))
                  => (result = "NotAStepMultiple" /\ Untouched)
           /\ (Val(request[2]) < 0 \/ Val(request[2]) > 360)
                  => result = "OutOfRange"

\* 90 degrees on 3 steps per revolution is three quarters of a step
C10_Witness ==
    /\ GoTo
    /\ entry # None
    /\ steps_per_revolution = 3
    /\ request = <<None, Some(90)>>
    /\ result = "NotAStepMultiple"
    /\ steps_from_home = entry

\* C11: every call that reaches step() with rpm <= 0 fails, for any number of
\* steps including 0, with an error raised by the timing computation of
\* lines 79-86, i.e. before the pulse loop writes the pulse line.
C11_NonPositiveSpeedRejected ==
    (Returned /\ ReachedStep /\ steps_per_revolution > 0 /\ rpm <= 0)
        => (result \notin {"ok", "running"} /\ writes.high = 0)

\* C12: no controller exists with steps_per_revolution <= 0: constructing one
\* fails with an invalid-configuration error.
C12_StepsPerRevolutionPositive ==
    \/ steps_per_revolution > 0
    \/ (op = "__init__" /\ result = "InvalidConfiguration")

\* C13: a step call that passes validation (steps_per_revolution > 0, rpm
\* positive and not above max_rpm) returns normally after exactly `steps`
\* writes of the pulse line high and as many low, none for steps = 0, and the
\* pulse line is not high when it returns.
C13_ExactPulses ==
    (Returned /\ ReachedStep /\ steps_per_revolution > 0 /\ UsableRpm)
        => /\ result = "ok"
           /\ writes.high = steps
           /\ writes.low = steps
           /\ pulse_pin # "HIGH"

\* C14: when a step call has completed all its pulses and returns, the motor
\* is disabled (enable line high) if hold_position is false and enabled
\* (enable line low) if hold_position is true.
C14_EnableAfterStep ==
    (Returned /\ ReachedStep /\ result = "ok")
        => /\ writes.low = writes.high
           /\ enable_pin = IF hold_position THEN "LOW" ELSE "HIGH"

\* two pulses done without hold_position: enabled at line 56, disabled at 71
C14_Witness ==
    /\ Returned
    /\ op = "step"
    /\ result = "ok"
    /\ ~hold_position
    /\ steps = 2
    /\ writes.low = 2
    /\ writes.enable = 2
    /\ enable_pin = "HIGH"

\* C15: for steps_per_revolution > 0, whenever home is set and no pulse is in
\* progress, steps_from_home equals the pulses completed since the most
\* recent set_current_position_as_home, clockwise minus counterclockwise,
\* modulo steps_per_revolution; set_current_position_as_home restarts the
\* count at 0 whatever the position was.
C15_PositionIsNetPulses ==
    /\ (steps_per_revolution > 0 /\ steps_from_home # None
            /\ pc \in {"idle", "step", "loop", "returned"})
        => Val(steps_from_home) = net_pulses
    /\ (Returned /\ op = "set_current_position_as_home")
        => (steps_from_home = Some(0) /\ net_pulses = 0)

\* the position `k` updates away from `pos` in the direction of the call
MovedBy(pos, cw, k, n) ==
    IF cw THEN (pos + k) % n ELSE (pos - k) % n

\* C16: inside the loop of step() the position is updated exactly once per
\* pulse, after the pulse's low phase and before the next high write, in the
\* direction of the pulse: at every loop head the number of updates equals
\* the number of high writes and of low writes, in between it is one behind,
\* and a call that ends early leaves the position at most the one pulse in
\* progress behind the pulses started.
C16_UpdateOncePerPulse ==
    /\ pc = "loop" => (updates = i /\ writes.high = i /\ writes.low = i)
    /\ pc = "high" => (updates = i /\ writes.high = i + 1 /\ writes.low = i)
    /\ pc = "low" => (updates = i /\ writes.high = i + 1 /\ writes.low = i + 1)
    /\ (Returned /\ ReachedStep)
        => (writes.low = updates /\ writes.high - updates \in {0, 1})
    /\ ((pc \in {"loop", "high", "low"} \/ (Returned /\ ReachedStep))
            /\ steps_per_revolution > 0 /\ entry # None)
        => steps_from_home = Some(MovedBy(Val(entry), turn_clockwise, updates,
                                          steps_per_revolution))

\* at the head of the third iteration: two pulses, two updates
C16_Witness ==
    /\ pc = "loop"
    /\ i = 2
    /\ steps = 3
    /\ turn_clockwise
    /\ steps_per_revolution = 3
    /\ entry = Some(0)
    /\ writes.high = 2
    /\ writes.low = 2
    /\ updates = 2
    /\ steps_from_home = Some(2)

\* C17: a step call writes nothing before its speed check; once past it, the
\* direction line has been written exactly once, high for clockwise and low
\* for counterclockwise, and the motor has been enabled, both before the
\* first write of the pulse line, and the direction line is not written
\* again while the loop runs or before the call ends.
C17_DirectionAndEnableFirst ==
    /\ pc = "step" => writes = NoWrites
    /\ pc \in {"loop", "high", "low"}
        => /\ writes.direction = 1
           /\ writes.enable = 1
           /\ enable_pin = "LOW"
           /\ direction_pin = IF turn_clockwise THEN "HIGH" ELSE "LOW"
    /\ (Returned /\ ReachedStep /\ ~TooFast)
        => /\ writes.direction = 1
           /\ writes.enable >= 1
           /\ direction_pin = IF turn_clockwise THEN "HIGH" ELSE "LOW"
    /\ writes.high > 0 => (writes.direction = 1 /\ writes.enable >= 1)

\* the first pulse of a counterclockwise call has just been driven high
C17_Witness ==
    /\ pc = "high"
    /\ i = 0
    /\ ~turn_clockwise
    /\ writes = [enable |-> 1, direction |-> 1, high |-> 1, low |-> 0]
    /\ direction_pin = "LOW"
    /\ enable_pin = "LOW"
    /\ pulse_pin = "HIGH"

\* C18: for steps_per_revolution > 0, every step or go_to_position call that
\* fails does so before any write of the pulse line and with steps_from_home
\* as it was when the call began.
C18_NoPartialMotion ==
    (Returned /\ steps_per_revolution > 0 /\ result # "ok")
        => (writes.high = 0 /\ writes.low = 0 /\ steps_from_home = entry)

\* one step of the home lifecycle: a set home stays set, and an unset home
\* becomes set only by set_current_position_as_home
HomeStep ==
    /\ steps_from_home # None => steps_from_home' # None
    /\ (steps_from_home = None /\ steps_from_home' # None)
        => (op' = "set_current_position_as_home" /\ steps_from_home' = Some(0))
    /\ (Returned' /\ ReachedStep' /\ entry' = None)
        => steps_from_home' = None

\* C19: the position is unset after construction; step calls made before
\* the first set_current_position_as_home emit their pulses and leave it
\* unset; only set_current_position_as_home sets it; once set it is never
\* unset again.
C19_HomeLifecycle ==
    /\ steps_from_home = None
    /\ [][HomeStep]_vars

\* two pulses emitted with home still unset
C19_Witness ==
    /\ Returned
    /\ op = "step"
    /\ result = "ok"
    /\ entry = None
    /\ writes.high = 2
    /\ writes.low = 2
    /\ updates = 2
    /\ steps_from_home = None

\* C20: for steps_per_revolution > 0, whenever no call is in progress (after
\* construction and after any call has returned or failed) the motor is
\* enabled, enable line low, exactly when hold_position is true.
C20_IdleEnableMatchesHold ==
    (pc \in {"idle", "returned"} /\ steps_per_revolution > 0)
        => ((enable_pin = "LOW") <=> hold_position)

====
